---- MODULE Spec2Model ----
(***************************************************************************)
(* Model of the Area backend's Action/Reaction engine: the per-service     *)
(* capability lookup (FindActionByName / FindReactionByName), the          *)
(* capability info queries (GetServiceActionInfo / GetServiceReactionInfo) *)
(* and the Action handlers that a unit's poller drives in a loop           *)
(* (TimerActionSpecificHour, SpotifyActionMusicPlayed,                     *)
(* MicrosoftActionReceiveMail, OpenweathermapActionSpecificWeather).       *)
(*                                                                         *)
(* One unit (schemas.Area) is modelled; its handler kind, its option, its  *)
(* refresh rate and the initial content of its StorageVariable are drawn   *)
(* in Init.  Time is counted in seconds.                                   *)
(***************************************************************************)
EXTENDS Integers, Sequences, FiniteSets, TLC

VARIABLES
    kind,          \* which Action handler the unit is bound to
    option,        \* decoded content of area.ActionOption (timer: hour, minute)
    refreshRate,   \* area.ActionRefreshRate
    tzOffset,      \* seconds between the server's time.Local and Europe/Paris
    blob,          \* persisted area.StorageVariable
    now,           \* server clock (time.Now()), seconds
    world,         \* observed external condition (playback, weather)
    mailbox,       \* receivedDateTime of the mails in the Microsoft inbox
    last,          \* what the latest handler invocation did
    worldChanged,  \* the external condition changed since the latest invocation
    fires,         \* facts the timer sent in the latest wall-clock minute it fired in
    registry,      \* per service: actionsName, reactionsName, serviceInfo
    queries,       \* number of capability info queries made so far
    lookup,        \* result of the latest capability lookup
    units,         \* per unit id: the Area row's action and reaction references
    poller,        \* per unit id: the unit's poller task and its persisted state
    supervisor,    \* the pollers the supervisor holds, and its calls in progress
    history,       \* per unit id: what has happened to the unit so far
    auth,          \* the latest request AuthorizeJWT served and its outcome
    oauth,         \* the browser's CSRF cookie and the latest GitHub callback
    accounts       \* the user table and the latest call of the user service

vars == <<kind, option, refreshRate, tzOffset, blob, now, world, mailbox,
          last, worldChanged, fires, registry, queries, lookup,
          units, poller, supervisor, history, auth, oauth, accounts>>

engineVars == <<units, poller, supervisor, history>>

registryVars == <<registry, queries, lookup>>

webVars == <<oauth, accounts>>

unitVars == <<kind, option, refreshRate, tzOffset, blob, now, world, mailbox,
              last, worldChanged, fires>>

-----------------------------------------------------------------------------
(* Bounds of the model *)

MaxTime == 130

MaxQueries == 3

MaxMails == 2

-----------------------------------------------------------------------------
(* time.Time *)

\* the zero time.Time (year 1), for which IsZero() holds
ZeroTime == -100000

Second == 1

Minute == 60

Hour == 3600

\* time.Time.Hour(): hour of the day
HourOf(t) == (t \div Hour) % 24

\* TimeApiResponse.Minute: minute of the hour
MinuteOf(t) == (t \div Minute) % 60

\* index of the wall-clock minute a time falls in (one occurrence of hour:minute)
MinuteIndex(t) == t \div Minute

-----------------------------------------------------------------------------
(* area.StorageVariable and its JSON decoding *)

\* A blob is [tag, val]:
\*   "invalid"  bytes that are not JSON (the empty blob included)
\*   "null"     the JSON null
\*   "scalar"   valid JSON that is neither an object nor a value of a handler's type
\*              (an array, a string)
\*   "object"   a JSON object without the fields a handler reads: {}
\*   "badtime"  an object whose "time" field is not a timestamp: {"time": 5}
\*   "time"     {"time": <val>}: TimerActionSpecificHourStorage / MicrosoftVariableReceiveMail
\*   "spotify"  a SpotifyStorageVariable: val 0 (Init), 1 (True), 2 (False)
Blob(tag, val) == [tag |-> tag, val |-> val]

TimeBlob(t) == Blob("time", t)

SpotifyStorageVariableInit == 0

SpotifyStorageVariableTrue == 1

SpotifyStorageVariableFalse == 2

SpotifyBlob(v) == Blob("spotify", v)

\* json.Unmarshal(area.StorageVariable, &struct{}{}): succeeds on an object and on null
UnmarshalToto(b) == b.tag \in {"null", "object", "badtime", "time"}

\* json.Unmarshal(area.StorageVariable, &TimerActionSpecificHourStorage{}):
\* [err, time]; null and {} leave the zero time
UnmarshalTimeStorage(b) ==
    CASE b.tag = "time" -> [err |-> FALSE, time |-> b.val]
      [] b.tag \in {"null", "object"} -> [err |-> FALSE, time |-> ZeroTime]
      [] OTHER -> [err |-> TRUE, time |-> ZeroTime]

\* json.Unmarshal(area.StorageVariable, &variable) with variable preset to Init:
\* null leaves it untouched
UnmarshalSpotifyStorage(b) ==
    CASE b.tag = "spotify" -> [err |-> FALSE, variable |-> b.val]
      [] b.tag = "null" -> [err |-> FALSE, variable |-> SpotifyStorageVariableInit]
      [] OTHER -> [err |-> TRUE, variable |-> SpotifyStorageVariableInit]

-----------------------------------------------------------------------------
(* Result of one handler invocation *)

\* blob: the persisted StorageVariable when the handler returns
\* events: the persisted writes ("write") and channel sends ("send"), in order
\* slept: seconds of time.Sleep before the return
\* path: "done" (ran to the final sleep) or the early return taken
Ret(b, events, slept, path) ==
    [blob |-> b, events |-> events, slept |-> slept, path |-> path]

Fired(r) == \E i \in 1..Len(r.events) : r.events[i] = "send"

Writes(r) == Cardinality({i \in 1..Len(r.events) : r.events[i] = "write"})

\* the final sleep of TimerActionSpecificHour and SpotifyActionMusicPlayed
RefreshSleepMin(minimumRefreshRate, actionRefreshRate) ==
    IF minimumRefreshRate > actionRefreshRate
    THEN actionRefreshRate ELSE minimumRefreshRate

RefreshSleep(minimumRefreshRate, actionRefreshRate) ==
    IF minimumRefreshRate > actionRefreshRate
    THEN minimumRefreshRate ELSE actionRefreshRate

\* Action.MinimumRefreshRate as GetServiceActionInfo declares it
MinimumRefreshRate(k) ==
    CASE k = "Timer" -> 10
      [] k = "Spotify" -> 10
      [] OTHER -> 0

-----------------------------------------------------------------------------
(* TimerActionSpecificHour *)

\* actualTime: the Europe/Paris wall clock read as a time in time.Local
ActualTime(t, offset) == t + offset

\* env: [optionOk, api, updateInit, updateFire]
TimerActionSpecificHour(b, opt, rate, t, offset, env) ==
    IF ~env.optionOk THEN Ret(b, <<>>, Second, "option")
    ELSE IF env.api # "ok" THEN Ret(b, <<>>, Second, "upstream")
    ELSE
      LET d == UnmarshalTimeStorage(b)
          actual == ActualTime(t, offset)
      IN
      IF d.err /\ ~UnmarshalToto(b) THEN Ret(b, <<>>, 0, "storage")
      ELSE
        LET init == d.err \/ d.time = ZeroTime
            stored == IF init THEN t ELSE d.time
            b1 == IF init THEN TimeBlob(t) ELSE b
            ev1 == IF init THEN <<"write">> ELSE <<>>
        IN
        IF init /\ ~env.updateInit THEN Ret(b, <<>>, 0, "persist")
        ELSE IF stored < actual /\ HourOf(actual) = opt.hour
                /\ MinuteOf(actual) = opt.minute
        THEN IF ~env.updateFire THEN Ret(b1, ev1, 0, "persist")
             ELSE Ret(TimeBlob(t + Minute), ev1 \o <<"write", "send">>,
                      RefreshSleep(MinimumRefreshRate("Timer"), rate), "done")
        ELSE Ret(b1, ev1, RefreshSleep(MinimumRefreshRate("Timer"), rate), "done")

-----------------------------------------------------------------------------
(* SpotifyActionMusicPlayed *)

\* [variable, blob, events, err]: the variable the handler goes on with, the
\* persisted blob and the writes made
InitializedSpotifyStorageVariable(b, updateOk) ==
    LET d == UnmarshalSpotifyStorage(b) IN
    IF d.err /\ ~UnmarshalToto(b)
    THEN [variable |-> SpotifyStorageVariableInit, blob |-> b,
          events |-> <<>>, err |-> TRUE]
    ELSE IF d.err \/ d.variable = SpotifyStorageVariableInit
    THEN IF updateOk
         THEN [variable |-> SpotifyStorageVariableFalse,
               blob |-> SpotifyBlob(SpotifyStorageVariableFalse),
               events |-> <<"write">>, err |-> FALSE]
         ELSE [variable |-> SpotifyStorageVariableFalse, blob |-> b,
               events |-> <<>>, err |-> TRUE]
    ELSE [variable |-> d.variable, blob |-> b, events |-> <<>>, err |-> FALSE]

\* what the handler takes the playback to be: a non-200 answer comes back from
\* getSpotifyPlaybackResponse as an empty response with a nil error
ObservedPlayback(w, playback) == IF playback = "status" THEN "none" ELSE w

\* env: [optionOk, updateInit, tokenOk, playback, updateFire]
SpotifyActionMusicPlayed(b, rate, w, env) ==
    IF ~env.optionOk THEN Ret(b, <<>>, 0, "option")
    ELSE
      LET i == InitializedSpotifyStorageVariable(b, env.updateInit)
          sleep == RefreshSleep(MinimumRefreshRate("Spotify"), rate)
          seen == ObservedPlayback(w, env.playback)
      IN
      IF ~env.tokenOk THEN Ret(i.blob, i.events, 0, "token")
      ELSE IF env.playback \in {"reqfail", "decode"}
      THEN Ret(i.blob, i.events, 0, "upstream")
      ELSE IF seen = "expected"
      THEN IF i.variable = SpotifyStorageVariableFalse
           THEN IF ~env.updateFire THEN Ret(i.blob, i.events, 0, "persist")
                ELSE Ret(SpotifyBlob(SpotifyStorageVariableTrue),
                         i.events \o <<"write", "send">>, sleep, "done")
           ELSE Ret(i.blob, i.events, sleep, "done")
      ELSE IF i.variable = SpotifyStorageVariableTrue
           THEN IF ~env.updateFire THEN Ret(i.blob, i.events, 0, "persist")
                ELSE Ret(SpotifyBlob(SpotifyStorageVariableFalse),
                         i.events \o <<"write">>, sleep, "done")
           ELSE Ret(i.blob, i.events, sleep, "done")

-----------------------------------------------------------------------------
(* MicrosoftActionReceiveMail *)

\* the mails the Graph query returns: receivedDateTime gt the watermark
NewMails(mails, watermark) == {m \in mails : m > watermark}

\* variable.Time when the query is built: the stored time, or an hour ago when
\* the storage variable is initialized in this invocation
Watermark(b, t) ==
    LET d == UnmarshalTimeStorage(b) IN
    IF d.err \/ d.time = ZeroTime THEN t - Hour ELSE d.time

\* the fixed sleep that ends MicrosoftActionReceiveMail
MicrosoftSleep == 10

\* a handler that sends one fact for each mail the query returns
MicrosoftActionReceiveMailEach(b, mails, t, env) ==
    LET new == NewMails(mails, Watermark(b, t)) IN
    Ret(TimeBlob(env.first + Second),
        <<"write">> \o [i \in 1..Cardinality(new) |-> "send"],
        MicrosoftSleep, "done")

\* env: [findOk, updateInit, tokenOk, http, first, parseOk, updateFire]
\* first: the receivedDateTime of emailResponse.Value[0]
MicrosoftActionReceiveMail(b, mails, t, env) ==
    IF ~env.findOk THEN Ret(b, <<>>, 0, "find")
    ELSE
      LET d == UnmarshalTimeStorage(b) IN
      IF d.err /\ ~UnmarshalToto(b) THEN Ret(b, <<>>, 0, "storage")
      ELSE
        LET init == d.err \/ d.time = ZeroTime
            watermark == Watermark(b, t)
            wrote == init /\ env.updateInit
            b1 == IF wrote THEN TimeBlob(t - Hour) ELSE b
            ev1 == IF wrote THEN <<"write">> ELSE <<>>
            new == NewMails(mails, watermark)
        IN
        IF ~env.tokenOk THEN Ret(b1, ev1, 0, "token")
        ELSE IF env.http # "ok" THEN Ret(b1, ev1, 0, "upstream")
        ELSE IF new = {} THEN Ret(b1, ev1, MicrosoftSleep, "done")
        ELSE IF ~env.parseOk THEN Ret(b1, ev1, 0, "parse")
        ELSE IF env.updateFire
        THEN Ret(TimeBlob(env.first + Second), ev1 \o <<"write", "send">>,
                 MicrosoftSleep, "done")
        ELSE Ret(b1, ev1 \o <<"send">>, MicrosoftSleep, "done")

-----------------------------------------------------------------------------
(* OpenweathermapActionSpecificWeather *)

\* env: [optionOk, coordinates, weather]
\* coordinates, weather: "ok", "err" (request or decode failure), "empty" (the
\* answer holds an empty list, whose element 0 the code indexes)
OpenweathermapActionSpecificWeather(b, w, env) ==
    IF ~env.optionOk THEN Ret(b, <<>>, Second, "option")
    ELSE IF env.coordinates = "empty" THEN Ret(b, <<>>, 0, "panic")
    ELSE IF env.weather = "err" THEN Ret(b, <<>>, Minute, "upstream")
    ELSE IF env.weather = "empty" THEN Ret(b, <<>>, 0, "panic")
    ELSE IF w = "expected" THEN Ret(b, <<"send">>, Minute, "done")
    ELSE Ret(b, <<>>, Minute, "done")

-----------------------------------------------------------------------------
(* The unit and its poll cycles *)

Kinds == {"Timer", "Spotify", "Microsoft", "Weather"}

\* area.ActionRefreshRate values drawn for the unit
Rates == {0, 20}

\* the external condition: the expected track / weather, another one, none
Worlds == {"expected", "other", "none"}

Outcomes == {"ok", "reqfail", "status", "decode"}

ListOutcomes == {"ok", "err", "empty"}

\* what the StorageVariable column may hold when the unit is first polled: any
\* bytes, or a state the unit's own handler stored before
InitialBlobs(k) ==
    {Blob("invalid", 0), Blob("null", 0), Blob("scalar", 0), Blob("object", 0)}
    \cup (CASE k \in {"Timer", "Microsoft"} -> {Blob("badtime", 0)}
            [] k = "Spotify" -> {SpotifyBlob(SpotifyStorageVariableTrue),
                                 SpotifyBlob(SpotifyStorageVariableFalse)}
            [] OTHER -> {})

TimerOptions == [hour : {0, 1}, minute : {1}]

NoOption == [hour |-> 0, minute |-> 0]

NoInvocation ==
    [blob |-> Blob("invalid", 0), events |-> <<>>, slept |-> 0, path |-> "none",
     before |-> Blob("invalid", 0), minute |-> -1, doubled |-> FALSE]

\* the record kept of an invocation that returned r; same: the external
\* condition is the one the invocation before it observed; doubled: both fired
Record(r, same) ==
    [blob |-> r.blob, events |-> r.events, slept |-> r.slept, path |-> r.path,
     before |-> blob,
     minute |-> MinuteIndex(ActualTime(now, tzOffset)),
     doubled |-> same /\ Fired(last) /\ Fired(r)]

NoFires == [minute |-> -1, count |-> 0]

\* one more fact sent in wall-clock minute m
CountFire(f, m) ==
    IF f.minute = m THEN [f EXCEPT !.count = @ + 1]
    ELSE [minute |-> m, count |-> 1]

\* the poller's loop: the handler is invoked again once it has returned, with
\* the unit's persisted state; a handler that panicked is not invoked again
Invoked(r, same) ==
    /\ last.path # "panic"
    /\ now + r.slept <= MaxTime
    /\ blob' = r.blob
    /\ now' = now + r.slept
    /\ last' = Record(r, same)
    /\ worldChanged' = FALSE
    /\ fires' = IF kind = "Timer" /\ Fired(r)
                THEN CountFire(fires, MinuteIndex(ActualTime(now, tzOffset)))
                ELSE fires
    /\ UNCHANGED <<kind, option, refreshRate, tzOffset, world, mailbox>>
    /\ UNCHANGED registryVars
    /\ UNCHANGED <<engineVars, auth, webVars>>

\* the outcomes of the calls a Timer invocation makes
TimerEnvs ==
    [optionOk : {FALSE}, api : {"ok"}, updateInit : {TRUE}, updateFire : {TRUE}]
    \cup [optionOk : {TRUE}, api : Outcomes \ {"ok"}, updateInit : {TRUE},
          updateFire : {TRUE}]
    \cup [optionOk : {TRUE}, api : {"ok"}, updateInit : BOOLEAN,
          updateFire : BOOLEAN]

InvokeTimer ==
    /\ kind = "Timer"
    /\ \E env \in TimerEnvs :
          Invoked(TimerActionSpecificHour(blob, option, refreshRate, now,
                                          tzOffset, env),
                  /\ last.path # "none"
                  /\ last.minute = MinuteIndex(ActualTime(now, tzOffset)))

\* the outcomes of the calls a Spotify invocation makes
SpotifyEnvs ==
    [optionOk : {FALSE}, updateInit : {TRUE}, tokenOk : {TRUE},
     playback : {"ok"}, updateFire : {TRUE}]
    \cup [optionOk : {TRUE}, updateInit : BOOLEAN, tokenOk : {FALSE},
          playback : {"ok"}, updateFire : {TRUE}]
    \cup [optionOk : {TRUE}, updateInit : BOOLEAN, tokenOk : {TRUE},
          playback : Outcomes, updateFire : BOOLEAN]

InvokeSpotify ==
    /\ kind = "Spotify"
    /\ \E env \in SpotifyEnvs :
          Invoked(SpotifyActionMusicPlayed(blob, refreshRate, world, env),
                  last.path # "none" /\ ~worldChanged)

\* the outcomes of the calls a Microsoft invocation makes; first is one of
\* the mails the query returns (0 when it returns none)
MicrosoftEnvs(new) ==
    LET none == IF new = {} THEN {0} ELSE {CHOOSE m \in new : TRUE} IN
    [findOk : {FALSE}, updateInit : {TRUE}, tokenOk : {TRUE}, http : {"ok"},
     first : none, parseOk : {TRUE}, updateFire : {TRUE}]
    \cup [findOk : {TRUE}, updateInit : BOOLEAN, tokenOk : {FALSE}, http : {"ok"},
          first : none, parseOk : {TRUE}, updateFire : {TRUE}]
    \cup [findOk : {TRUE}, updateInit : BOOLEAN, tokenOk : {TRUE},
          http : Outcomes \ {"ok"}, first : none, parseOk : {TRUE},
          updateFire : {TRUE}]
    \cup [findOk : {TRUE}, updateInit : BOOLEAN, tokenOk : {TRUE}, http : {"ok"},
          first : none, parseOk : {FALSE}, updateFire : {TRUE}]
    \cup [findOk : {TRUE}, updateInit : BOOLEAN, tokenOk : {TRUE}, http : {"ok"},
          first : (IF new = {} THEN {0} ELSE new), parseOk : {TRUE},
          updateFire : BOOLEAN]

InvokeMicrosoft ==
    /\ kind = "Microsoft"
    /\ \E env \in MicrosoftEnvs(NewMails(mailbox, Watermark(blob, now))) :
          /\ Invoked(MicrosoftActionReceiveMail(blob, mailbox, now, env),
                     last.path # "none" /\ ~worldChanged)

InvokeWeather ==
    /\ kind = "Weather"
    /\ \E env \in [optionOk : {FALSE}, coordinates : {"ok"}, weather : {"ok"}]
                   \cup [optionOk : {TRUE}, coordinates : ListOutcomes,
                         weather : ListOutcomes] :
          Invoked(OpenweathermapActionSpecificWeather(blob, world, env),
                  last.path # "none" /\ ~worldChanged)

\* the track played or the weather changes
WorldChange ==
    /\ kind \in {"Spotify", "Weather"}
    /\ \E w \in Worlds \ {world} : world' = w
    /\ worldChanged' = TRUE
    /\ UNCHANGED <<kind, option, refreshRate, tzOffset, blob, now, mailbox,
                   last, fires>>
    /\ UNCHANGED registryVars
    /\ UNCHANGED <<engineVars, auth, webVars>>

\* a mail is received
MailArrives ==
    /\ kind = "Microsoft"
    /\ Cardinality(mailbox) < MaxMails
    /\ now \notin mailbox
    /\ mailbox' = mailbox \cup {now}
    /\ worldChanged' = TRUE
    /\ UNCHANGED <<kind, option, refreshRate, tzOffset, blob, now, world,
                   last, fires>>
    /\ UNCHANGED registryVars
    /\ UNCHANGED <<engineVars, auth, webVars>>

\* a mail received in the second before the current one shows in the mailbox
MailArrivedBefore ==
    /\ kind = "Microsoft"
    /\ Cardinality(mailbox) < MaxMails
    /\ (now - Second) \notin mailbox
    /\ mailbox' = mailbox \cup {now - Second}
    /\ worldChanged' = TRUE
    /\ UNCHANGED <<kind, option, refreshRate, tzOffset, blob, now, world,
                   last, fires>>
    /\ UNCHANGED registryVars
    /\ UNCHANGED <<engineVars, auth, webVars>>

-----------------------------------------------------------------------------
(* The capability registry of each service *)

Services == {"Timer", "Spotify", "Microsoft", "Openweathermap", "Github"}

ActionNames ==
    {"SpecificTime", "MusicPlayed", "ReceiveMicrosoftMail", "SpecificWeather",
     "SpecificTemperature"}

ReactionNames ==
    {"GiveTime", "SkipNextMusic", "SkipPreviousMusic", "SendMicrosoftMail",
     "CurrentWeather", "CurrentTemperature"}

\* the names looked up: every capability name, and two that no service knows
Names == ActionNames \cup ReactionNames \cup {"Unknown", ""}

\* the nil func value
Nil == "nil"

FindActionByNameDefault(s, name) ==
    CASE s = "Timer" -> "TimerActionSpecificHour"
      [] s = "Spotify" -> "SpotifyActionMusicPlayed"
      [] s = "Microsoft" -> "MicrosoftActionReceiveMail"
      [] s = "Openweathermap" -> "OpenweathermapActionSpecificWeather"
      [] OTHER -> Nil

FindActionByName(s, name) ==
    CASE s = "Timer" ->
           IF name = "SpecificTime" THEN "TimerActionSpecificHour" ELSE Nil
      [] s = "Spotify" ->
           IF name = "MusicPlayed" THEN "SpotifyActionMusicPlayed" ELSE Nil
      [] s = "Microsoft" ->
           IF name = "ReceiveMicrosoftMail" THEN "MicrosoftActionReceiveMail"
           ELSE Nil
      [] s = "Openweathermap" ->
           IF name = "SpecificWeather" THEN "OpenweathermapActionSpecificWeather"
           ELSE IF name = "SpecificTemperature"
           THEN "OpenweathermapActionSpecificTemperature"
           ELSE Nil
      [] OTHER -> Nil

FindReactionByName(s, name) ==
    CASE s = "Timer" ->
           IF name = "GiveTime" THEN "TimerReactionGiveTime" ELSE Nil
      [] s = "Spotify" ->
           IF name = "SkipNextMusic" THEN "SpotifyReactionSkipNextMusic"
           ELSE IF name = "SkipPreviousMusic"
           THEN "SpotifyReactionSkipPreviousMusic"
           ELSE Nil
      [] s = "Microsoft" ->
           IF name = "SendMicrosoftMail" THEN "MicrosoftReactionSendMail" ELSE Nil
      [] s = "Openweathermap" ->
           IF name = "CurrentWeather" THEN "OpenweathermapReactionCurrentWeather"
           ELSE Nil
      [] OTHER -> Nil

\* the service structs as their constructors leave them
RegistryStart ==
    [s \in Services |->
        [actionsName |-> <<>>, reactionsName |-> <<>>,
         serviceInfo |-> "constructed"]]

NoLookup == [service |-> "", name |-> "", which |-> "none", handler |-> Nil]

\* serviceRepository.FindByName: the stored row, or the zero Service on an error
FindByName(found) == IF found THEN "row" ELSE "zero"

\* the service struct after GetServiceActionInfo
GetServiceActionInfo(s, svc, found) ==
    CASE s \in {"Timer", "Spotify", "Microsoft"} ->
           [svc EXCEPT !.serviceInfo = FindByName(found)]
      [] s = "Openweathermap" ->
           [svc EXCEPT !.actionsName =
                @ \o <<"SpecificWeather", "SpecificTemperature">>]
      [] OTHER -> svc

\* the service struct after GetServiceReactionInfo
GetServiceReactionInfo(s, svc, found) ==
    CASE s \in {"Timer", "Spotify"} ->
           [svc EXCEPT !.serviceInfo = FindByName(found)]
      [] s = "Microsoft" ->
           [svc EXCEPT !.reactionsName = @ \o <<"SendMicrosoftMail">>,
                       !.serviceInfo = FindByName(found)]
      [] s = "Openweathermap" ->
           [svc EXCEPT !.reactionsName =
                @ \o <<"CurrentWeather", "CurrentTemperature">>]
      [] OTHER -> svc

\* the names of the actions GetServiceActionInfo returns
ActionInfoNames(s) ==
    CASE s = "Timer" -> {"SpecificTime"}
      [] s = "Spotify" -> {"MusicPlayed"}
      [] s = "Microsoft" -> {"ReceiveMicrosoftMail"}
      [] s = "Openweathermap" -> {"SpecificWeather", "SpecificTemperature"}
      [] OTHER -> {}

\* the names of the reactions GetServiceReactionInfo returns
ReactionInfoNames(s) ==
    CASE s = "Timer" -> {"GiveTime"}
      [] s = "Spotify" -> {"SkipNextMusic", "SkipPreviousMusic"}
      [] s = "Microsoft" -> {"SendMicrosoftMail"}
      [] s = "Openweathermap" -> {"CurrentWeather", "CurrentTemperature"}
      [] OTHER -> {}

GetActionsName(s) == registry[s].actionsName

GetReactionsName(s) == registry[s].reactionsName

QueryActionInfo ==
    /\ queries < MaxQueries
    /\ \E s \in Services, found \in BOOLEAN :
          registry' = [registry EXCEPT
                          ![s] = GetServiceActionInfo(s, registry[s], found)]
    /\ queries' = queries + 1
    /\ UNCHANGED lookup
    /\ UNCHANGED unitVars
    /\ UNCHANGED <<engineVars, auth, webVars>>

QueryReactionInfo ==
    /\ queries < MaxQueries
    /\ \E s \in Services, found \in BOOLEAN :
          registry' = [registry EXCEPT
                          ![s] = GetServiceReactionInfo(s, registry[s], found)]
    /\ queries' = queries + 1
    /\ UNCHANGED lookup
    /\ UNCHANGED unitVars
    /\ UNCHANGED <<engineVars, auth, webVars>>

LookupAction ==
    /\ \E s \in Services, name \in Names :
          lookup' = [service |-> s, name |-> name, which |-> "action",
                     handler |-> FindActionByName(s, name)]
    /\ UNCHANGED <<registry, queries>>
    /\ UNCHANGED unitVars
    /\ UNCHANGED <<engineVars, auth, webVars>>

LookupReaction ==
    /\ \E s \in Services, name \in Names :
          lookup' = [service |-> s, name |-> name, which |-> "reaction",
                     handler |-> FindReactionByName(s, name)]
    /\ UNCHANGED <<registry, queries>>
    /\ UNCHANGED unitVars
    /\ UNCHANGED <<engineVars, auth, webVars>>

RegistryInit ==
    /\ registry = RegistryStart
    /\ queries = 0
    /\ lookup = NoLookup

-----------------------------------------------------------------------------
(* The Reaction handlers *)

\* what a Reaction handler leaves behind: the unit's persisted StorageVariable,
\* the string it returns (NoResult when it panics and returns nothing), the
\* seconds it slept, and the path it took
ReactionRet(b, result, slept, path) ==
    [blob |-> b, result |-> result, slept |-> slept, path |-> path]

NoResult == "(none)"

\* env: [api]
TimerReactionGiveTime(b, env) ==
    IF env.api # "ok" THEN ReactionRet(b, "error get actual time", 0, "upstream")
    ELSE ReactionRet(b, "current time is", 0, "done")

\* env: [token, request]; token: "ok", "err" (lookup failed), "empty"
SpotifyReactionSkipNextMusic(b, env) ==
    IF env.token = "err" THEN ReactionRet(b, "Error finding token:", 0, "token")
    ELSE IF env.token = "empty"
    THEN ReactionRet(b, "Error: Token not found", 0, "token")
    ELSE IF env.request = "reqfail"
    THEN ReactionRet(b, "Error making request:", 0, "upstream")
    ELSE ReactionRet(b, "Spotify skip next music", 0, "done")

MicrosoftReactionStoresResult(b, env) ==
    ReactionRet(Blob("scalar", 0), "Email sent successfully!", 0, "done")

\* env: [optionOk, findOk, token, request]
MicrosoftReactionSendMail(b, env) ==
    IF ~env.optionOk
    THEN ReactionRet(b, "Error unmarshalling options: ", 0, "option")
    ELSE IF ~env.findOk THEN ReactionRet(b, "Error finding area: ", 0, "find")
    ELSE IF env.token = "err" THEN ReactionRet(b, "Error finding token: ", 0, "token")
    ELSE IF env.token = "empty"
    THEN ReactionRet(b, "Error: Token not found", 0, "token")
    ELSE IF env.request = "reqfail"
    THEN ReactionRet(b, "Error sending email request: ", 0, "upstream")
    ELSE IF env.request = "status"
    THEN ReactionRet(b, "Error sending email: ", 0, "upstream")
    ELSE ReactionRet(b, "Email sent successfully!", 0, "done")

\* env: [optionOk, coordinates, weather]
\* coordinates, weather: "ok", "err", "empty" (the answer holds an empty list,
\* whose element 0 the code indexes); an error of getCoordinatesOfCity is
\* printed and the handler goes on
OpenweathermapReactionCurrentWeather(b, env) ==
    IF ~env.optionOk
    THEN ReactionRet(b, "error unmarshal weather option: ", Second, "option")
    ELSE IF env.coordinates = "empty" THEN ReactionRet(b, NoResult, 0, "panic")
    ELSE IF env.weather = "err"
    THEN ReactionRet(b, "error get actual weather info", 0, "upstream")
    ELSE IF env.weather = "empty" THEN ReactionRet(b, NoResult, 0, "panic")
    ELSE ReactionRet(b, "current weather in", 0, "done")

\* the outcomes of the calls each Reaction handler makes
ReactionEnvs(handler) ==
    CASE handler = "TimerReactionGiveTime" -> [api : {"ok", "reqfail"}]
      [] handler = "SpotifyReactionSkipNextMusic" ->
           [token : {"ok", "err", "empty"}, request : {"ok"}]
           \cup [token : {"ok"}, request : {"reqfail"}]
      [] handler = "MicrosoftReactionSendMail" ->
           [optionOk : {FALSE}, findOk : {TRUE}, token : {"ok"}, request : {"ok"}]
           \cup [optionOk : {TRUE}, findOk : {FALSE}, token : {"ok"},
                 request : {"ok"}]
           \cup [optionOk : {TRUE}, findOk : {TRUE}, token : {"err", "empty"},
                 request : {"ok"}]
           \cup [optionOk : {TRUE}, findOk : {TRUE}, token : {"ok"},
                 request : {"ok", "reqfail", "status"}]
      [] handler = "OpenweathermapReactionCurrentWeather" ->
           [optionOk : {FALSE}, coordinates : {"ok"}, weather : {"ok"}]
           \cup [optionOk : {TRUE}, coordinates : ListOutcomes,
                 weather : ListOutcomes]
      [] OTHER -> {}

\* the Reaction handler a lookup returned, applied
Reaction(handler, b, env) ==
    CASE handler = "TimerReactionGiveTime" -> TimerReactionGiveTime(b, env)
      [] handler = "SpotifyReactionSkipNextMusic" ->
           SpotifyReactionSkipNextMusic(b, env)
      [] handler = "MicrosoftReactionSendMail" -> MicrosoftReactionSendMail(b, env)
      [] handler = "OpenweathermapReactionCurrentWeather" ->
           OpenweathermapReactionCurrentWeather(b, env)

-----------------------------------------------------------------------------
(* The units, as the Area table holds them *)

Units == {1, 2}

\* a row: the service and name of its action and of its reaction, what its
\* option and the upstream make of every cycle, and its StorageVariable
Row(service, action, reactionService, reaction, behaviour, b) ==
    [service |-> service, action |-> action, reactionService |-> reactionService,
     reaction |-> reaction, behaviour |-> behaviour, blob |-> b]

\* a weather unit whose city has the configured weather on every cycle
WeatherUnit ==
    Row("Openweathermap", "SpecificWeather", "Timer", "GiveTime", "fires",
        Blob("null", 0))

\* the same, reacting with the weather of a city
WeatherToWeatherUnit ==
    Row("Openweathermap", "SpecificWeather", "Openweathermap", "CurrentWeather",
        "fires", Blob("null", 0))

\* a timer unit polled during its configured minute, with a time stored before
TimerUnit ==
    Row("Timer", "SpecificTime", "Microsoft", "SendMicrosoftMail", "fires",
        TimeBlob(0))

\* a timer unit whose ActionOption does not decode
FailingUnit ==
    Row("Timer", "SpecificTime", "Timer", "GiveTime", "errors", Blob("null", 0))

\* a weather unit whose city the geocoding API does not know
PanicUnit ==
    Row("Openweathermap", "SpecificWeather", "Spotify", "SkipNextMusic",
        "panics", Blob("null", 0))

\* a unit whose action name no service binds
UnknownActionUnit ==
    Row("Timer", "Unknown", "Timer", "GiveTime", "fires", Blob("null", 0))

\* a unit whose reaction is advertised by GetServiceReactionInfo but not bound
\* by FindReactionbyName
UnboundReactionUnit ==
    Row("Openweathermap", "SpecificWeather", "Openweathermap",
        "CurrentTemperature", "fires", Blob("null", 0))

\* the unit of scenario A: fires when its stored counter reaches 3; its state
\* starts empty
CounterUnit ==
    Row("Scenario", "Counter", "Spotify", "SkipNextMusic", "counts",
        Blob("invalid", 0))

\* a Spotify unit whose expected track plays on every cycle
SpotifyUnit ==
    Row("Spotify", "MusicPlayed", "Spotify", "SkipNextMusic", "fires",
        Blob("null", 0))

\* a Microsoft unit with two mails received before its first poll
MicrosoftUnit ==
    Row("Microsoft", "ReceiveMicrosoftMail", "Timer", "GiveTime", "fires",
        Blob("null", 0))

Rows ==
    {WeatherUnit, WeatherToWeatherUnit, TimerUnit, FailingUnit, PanicUnit,
     UnknownActionUnit, UnboundReactionUnit, CounterUnit}

\* the rows drawn for the second unit
SiblingRows == {WeatherUnit, FailingUnit}

-----------------------------------------------------------------------------
(* The handlers a poller drives *)

MaxCounter == 4

CounterOf(b) == IF b.tag = "counter" THEN b.val ELSE 0

CounterFiresFrom(n) == n >= 3

CounterFires(n) == n = 3

\* scenario A's Action handler: an empty or foreign state counts as 0; every
\* cycle stores the counter plus one, and the cycle that reaches 3 fires
CounterAction(b) ==
    LET n == CounterOf(b) + 1 IN
    Ret(Blob("counter", n),
        IF CounterFires(n) THEN <<"write", "send">> ELSE <<"write">>,
        Second, "done")

\* resolveAction / resolveReaction: the lookup of the row's service
ResolveAction(row) ==
    IF row.service = "Scenario"
    THEN IF row.action = "Counter" THEN "CounterAction" ELSE Nil
    ELSE FindActionByName(row.service, row.action)

ResolveReaction(row) == FindReactionByName(row.reactionService, row.reaction)

ResolvesAlways(row) == TRUE

Resolves(row) == ResolveAction(row) # Nil /\ ResolveReaction(row) # Nil

\* the server clock while the pollers are observed: 01:01:00
EngineNow == Hour + Minute

\* the mailbox while the pollers are observed: two mails of the last minute
EngineMails == {EngineNow - Second - Second, EngineNow - Second}

\* one call of the row's Action handler on the persisted state b; calling a
\* nil func value panics
ActionCall(handler, row, b) ==
    CASE handler = "TimerActionSpecificHour" ->
           TimerActionSpecificHour(b, [hour |-> 1, minute |-> 1], 0, EngineNow, 0,
               [optionOk |-> row.behaviour # "errors", api |-> "ok",
                updateInit |-> TRUE, updateFire |-> TRUE])
      [] handler = "OpenweathermapActionSpecificWeather" ->
           OpenweathermapActionSpecificWeather(b, "expected",
               [optionOk |-> TRUE,
                coordinates |-> IF row.behaviour = "panics" THEN "empty" ELSE "ok",
                weather |-> "ok"])
      [] handler = "CounterAction" -> CounterAction(b)
      [] handler = "SpotifyActionMusicPlayed" ->
           SpotifyActionMusicPlayed(b, 0, "expected",
               [optionOk |-> TRUE, updateInit |-> TRUE, tokenOk |-> TRUE,
                playback |-> "ok", updateFire |-> TRUE])
      [] handler = "MicrosoftActionReceiveMail" ->
           MicrosoftActionReceiveMail(b, EngineMails, EngineNow,
               [findOk |-> TRUE, updateInit |-> TRUE, tokenOk |-> TRUE,
                http |-> "ok", first |-> EngineNow - Second, parseOk |-> TRUE,
                updateFire |-> TRUE])
      [] OTHER -> Ret(b, <<>>, 0, "panic")

NoFact == [about |-> "none", n |-> 0]

\* the fact string the handler sends: what it is about, and the counter in it
FactOf(handler, r) ==
    CASE handler = "TimerActionSpecificHour" -> [about |-> "time", n |-> 0]
      [] handler = "CounterAction" -> [about |-> "counter", n |-> CounterOf(r.blob)]
      [] handler = "SpotifyActionMusicPlayed" -> [about |-> "music", n |-> 0]
      [] handler = "MicrosoftActionReceiveMail" -> [about |-> "mail", n |-> 0]
      [] OTHER -> [about |-> "weather", n |-> 0]

-----------------------------------------------------------------------------
(* The unit pollers *)

\* state: "None" (no poller yet), "Starting", "Polling", "Reacting", "Stopped"
\* phase, while Polling: "ready" (before a cycle), "called" (the Action handler
\*   is mid-call), "sleeping" (the sleep that ends the cycle)
\* cancel: the cancellation signal; blob: the unit's persisted StorageVariable;
\* fact: the fact in flight; result: the unit's latest Reaction result;
\* reason: why the poller stopped
NoPoller(b) ==
    [state |-> "None", phase |-> "ready", cancel |-> FALSE, blob |-> b,
     fact |-> NoFact, result |-> NoResult, reason |-> "none"]

Spawned(p) ==
    [p EXCEPT !.state = "Starting", !.phase = "ready", !.cancel = FALSE,
              !.fact = NoFact, !.reason = "none"]

Stopped(p, why) ==
    [p EXCEPT !.state = "Stopped", !.phase = "ready", !.fact = NoFact,
              !.reason = why]

\* where a poller is: in the handler call, in the sleep, or elsewhere
Where(p) ==
    IF p.state = "Polling" /\ p.phase \in {"called", "sleeping"} THEN p.phase
    ELSE "elsewhere"

\* 0, 1, many
Sat(n) == IF n >= 2 THEN 2 ELSE n

Dec(n) == IF n > 0 THEN n - 1 ELSE 0

\* about a unit: invoked: its Action handler was invoked since its poller was
\* spawned; reacted: Reaction invocations so far; lastFact: the fact of the
\* latest one; configErrors: configuration errors reported since the spawn;
\* stopReturned: a stop for it has returned and no start followed;
\* lateWrite: its state was written while stopReturned; live: poller tasks of
\* its id that have not stopped; stopAt: where its poller was when stop was
\* called; startNoop: start was called while its poller was running
NoHistory ==
    [invoked |-> FALSE, reacted |-> 0, lastFact |-> NoFact, configErrors |-> 0,
     stopReturned |-> FALSE, lateWrite |-> FALSE, live |-> 0, stopAt |-> "none",
     startNoop |-> FALSE]

SpawnedHistory(h) ==
    [h EXCEPT !.invoked = FALSE, !.configErrors = 0, !.stopReturned = FALSE,
              !.live = Sat(@ + 1), !.stopAt = "none", !.startNoop = FALSE]

CancelIgnored(p) == FALSE

\* the poller's check of its cancellation signal
CancelSeen(p) == p.cancel

BlockedBySibling(u) ==
    \E v \in Units \ {u} : poller[v].state = "Polling" /\ poller[v].phase # "ready"

\* a poller waits on no other unit before it invokes its handler
Blocked(u) == FALSE

AfterPanicCrash(ps, u) ==
    [v \in Units |->
        IF v = u THEN Stopped(ps[v], "panic")
        ELSE IF ps[v].state = "None" THEN ps[v]
        ELSE [ps[v] EXCEPT !.state = "Stopped"]]

\* a panic inside a handler call is caught at the poller's boundary
AfterPanic(ps, u) == [ps EXCEPT ![u] = Stopped(@, "panic")]

\* Starting: resolve both handlers; an unresolved name stops the poller and
\* reports a configuration error
Resolve(u) ==
    /\ poller[u].state = "Starting"
    /\ IF Resolves(units[u])
       THEN /\ poller' = [poller EXCEPT ![u].state = "Polling", ![u].phase = "ready"]
            /\ UNCHANGED history
       ELSE /\ poller' = [poller EXCEPT ![u] = Stopped(@, "config")]
            /\ history' = [history EXCEPT ![u].configErrors = Sat(@ + 1),
                                          ![u].live = Dec(@)]
    /\ UNCHANGED <<units, supervisor, auth, webVars>>
    /\ UNCHANGED <<unitVars, registryVars>>

\* Polling, before a cycle: stop on cancellation, else invoke the Action handler
BeginCycle(u) ==
    /\ poller[u].state = "Polling"
    /\ poller[u].phase = "ready"
    /\ ~Blocked(u)
    /\ units[u].behaviour = "counts" => CounterOf(poller[u].blob) < MaxCounter
    /\ IF CancelSeen(poller[u])
       THEN /\ poller' = [poller EXCEPT ![u] = Stopped(@, "cancel")]
            /\ history' = [history EXCEPT ![u].live = Dec(@)]
       ELSE /\ poller' = [poller EXCEPT ![u].phase = "called"]
            /\ history' = [history EXCEPT ![u].invoked = TRUE]
    /\ UNCHANGED <<units, supervisor, auth, webVars>>
    /\ UNCHANGED <<unitVars, registryVars>>

\* the Action handler runs: it persists its state, sends its fact and sleeps,
\* or panics
HandlerRuns(u) ==
    /\ poller[u].state = "Polling"
    /\ poller[u].phase = "called"
    /\ LET handler == ResolveAction(units[u])
           r == ActionCall(handler, units[u], poller[u].blob)
       IN
       IF r.path = "panic"
       THEN /\ poller' = AfterPanic(poller, u)
            /\ history' = [history EXCEPT ![u].live = Dec(@)]
       ELSE /\ poller' =
                 [poller EXCEPT
                    ![u].blob = r.blob,
                    ![u].state = IF Fired(r) THEN "Reacting" ELSE "Polling",
                    ![u].fact = IF Fired(r) THEN FactOf(handler, r) ELSE NoFact,
                    ![u].phase = IF r.slept > 0 THEN "sleeping" ELSE "ready"]
            /\ history' =
                 [history EXCEPT
                    ![u].lateWrite = @ \/ (Writes(r) > 0 /\ history[u].stopReturned)]
    /\ UNCHANGED <<units, supervisor, auth, webVars>>
    /\ UNCHANGED <<unitVars, registryVars>>

\* Reacting: invoke the Reaction handler with the fact, record what it returns
React(u) ==
    /\ poller[u].state = "Reacting"
    /\ LET handler == ResolveReaction(units[u]) IN
       \E env \in ReactionEnvs(handler) :
          LET rr == Reaction(handler, poller[u].blob, env) IN
          /\ IF rr.path = "panic"
             THEN /\ poller' = AfterPanic(poller, u)
                  /\ history' = [history EXCEPT ![u].live = Dec(@),
                                                ![u].reacted = Sat(@ + 1),
                                                ![u].lastFact = poller[u].fact]
             ELSE /\ poller' = [poller EXCEPT ![u].state = "Polling",
                                              ![u].blob = rr.blob,
                                              ![u].result = rr.result,
                                              ![u].fact = NoFact]
                  /\ history' = [history EXCEPT ![u].reacted = Sat(@ + 1),
                                                ![u].lastFact = poller[u].fact]
    /\ UNCHANGED <<units, supervisor, auth, webVars>>
    /\ UNCHANGED <<unitVars, registryVars>>

\* the sleep that ends a cycle: it ends, or the cancellation signal ends it
Wake(u) ==
    /\ poller[u].state = "Polling"
    /\ poller[u].phase = "sleeping"
    /\ IF CancelSeen(poller[u])
       THEN /\ poller' = [poller EXCEPT ![u] = Stopped(@, "cancel")]
            /\ history' = [history EXCEPT ![u].live = Dec(@)]
       ELSE /\ poller' = [poller EXCEPT ![u].phase = "ready"]
            /\ UNCHANGED history
    /\ UNCHANGED <<units, supervisor, auth, webVars>>
    /\ UNCHANGED <<unitVars, registryVars>>

PollerStep(u) ==
    Resolve(u) \/ BeginCycle(u) \/ HandlerRuns(u) \/ React(u) \/ Wake(u)

-----------------------------------------------------------------------------
(* The poller supervisor *)

\* handles: the unit ids with a poller in the supervisor's map
\* waiting: per unit id, the call that waits for its poller to stop
NoSupervisor ==
    [handles |-> {}, waiting |-> [u \in Units |-> "none"]]

AlwaysSpawn(u) == FALSE

\* a poller for the id is already running
Running(u) ==
    u \in supervisor.handles /\ poller[u].state \notin {"None", "Stopped"}

StopReturnsAtOnce(u) == TRUE

\* stop returns once the poller has reached Stopped
StopMayReturn(u) == poller[u].state \in {"None", "Stopped"}

\* start(unit): a no-op when a poller for the id is running
start(u) ==
    /\ supervisor.waiting[u] = "none"
    /\ IF Running(u)
       THEN /\ history' = [history EXCEPT ![u].startNoop = TRUE]
            /\ UNCHANGED <<poller, supervisor>>
       ELSE /\ poller' = [poller EXCEPT ![u] = Spawned(@)]
            /\ supervisor' = [supervisor EXCEPT !.handles = @ \cup {u}]
            /\ history' = [history EXCEPT ![u] = SpawnedHistory(@)]
    /\ UNCHANGED <<units, auth, webVars>>
    /\ UNCHANGED <<unitVars, registryVars>>

\* the cancellation signal of stop and restart, and the wait that follows
Signal(u, call) ==
    /\ supervisor.waiting[u] = "none"
    /\ u \in supervisor.handles
    /\ poller' = [poller EXCEPT ![u].cancel = TRUE]
    /\ supervisor' = [supervisor EXCEPT !.waiting[u] = call]
    /\ history' = [history EXCEPT ![u].stopAt = Where(poller[u])]
    /\ UNCHANGED <<units, auth, webVars>>
    /\ UNCHANGED <<unitVars, registryVars>>

\* stop(unitId), up to its wait
stop(u) == Signal(u, "stop")

\* restart(unit): stop, then start
restart(u) == Signal(u, "restart")

\* the wait of stop ends: stop returns; restart goes on with start
stopReturns(u) ==
    /\ supervisor.waiting[u] # "none"
    /\ StopMayReturn(u)
    /\ IF supervisor.waiting[u] = "restart"
       THEN /\ poller' = [poller EXCEPT ![u] = Spawned(@)]
            /\ supervisor' = [supervisor EXCEPT !.waiting[u] = "none"]
            /\ history' = [history EXCEPT ![u] = SpawnedHistory(@)]
       ELSE /\ supervisor' = [supervisor EXCEPT !.waiting[u] = "none",
                                                !.handles = @ \ {u}]
            /\ history' = [history EXCEPT ![u].stopReturned = TRUE]
            /\ UNCHANGED poller
    /\ UNCHANGED <<units, auth, webVars>>
    /\ UNCHANGED <<unitVars, registryVars>>

-----------------------------------------------------------------------------
(* AuthorizeJWT *)

\* len("Bearer ")
PrefixLen == 7

MaxRequests == 8

\* what the characters of the Authorization header after the first
\* len("Bearer ") are: nothing, a string that is not three dot-separated
\* segments, three segments that do not decode, a token with a bad signature,
\* an expired one, one signed with another method, a valid one
TokenStrings ==
    {"empty", "segments", "undecodable", "signature", "expired", "method",
     "valid"}

\* an Authorization header: its length up to len("Bearer "), and the rest
Headers ==
    [prefix : 0..(PrefixLen - 1), rest : {"absent"}]
    \cup [prefix : {PrefixLen}, rest : TokenStrings]

\* jwtService.ValidateToken: what jwt.Parse returns; no token object comes
\* back for a string that is not three segments
ValidateToken(tokenString) ==
    CASE tokenString \in {"empty", "segments"} -> [token |-> Nil, valid |-> FALSE]
      [] tokenString = "valid" -> [token |-> "token", valid |-> TRUE]
      [] OTHER -> [token |-> "token", valid |-> FALSE]

\* the middleware: "panic" (the slice of a header shorter than the prefix, the
\* read of Valid through a nil token), "401" (AbortWithStatus), "next" (the
\* request goes on to the handler)
AuthorizeJWT(header) ==
    IF header.prefix < PrefixLen THEN "panic"
    ELSE LET v == ValidateToken(header.rest) IN
         IF v.token = Nil THEN "panic"
         ELSE IF v.valid THEN "next"
         ELSE "401"

NoRequest == [header |-> [prefix |-> 0, rest |-> "absent"], outcome |-> "none",
              served |-> 0]

\* a request comes in through the middleware
Request ==
    /\ auth.served < MaxRequests
    /\ \E header \in Headers :
          auth' = [header |-> header, outcome |-> AuthorizeJWT(header),
                   served |-> auth.served + 1]
    /\ UNCHANGED <<engineVars, webVars>>
    /\ UNCHANGED <<unitVars, registryVars>>

-----------------------------------------------------------------------------
(* The GitHub OAuth callback *)

\* the values GenerateCSRFToken may return
CSRFStates == {"s1", "s2"}

\* ctx.Cookie returned an error: the request carries no latestCSRFToken cookie
NoCookie == "(absent)"

\* a callback request: the code and state query parameters (empty when not
\* given) and the latestCSRFToken cookie
CallbackRequests ==
    [code : {"", "code"}, state : CSRFStates \cup {""},
     cookie : CSRFStates \cup {"", NoCookie}]

\* the outcomes of the calls a callback makes
CallbackEnvs ==
    [exchange : {"ok", "err"}, saveToken : {"ok", "exists", "err"},
     userInfo : {"ok", "err"}, user : {"ok", "err"}]

\* a callback that compares nothing
AnyCSRFToken(state, latestCSRFToken) == TRUE

\* state != latestCSRFToken is refused
SameCSRFToken(state, latestCSRFToken) == state = latestCSRFToken

\* err: the error returned ("" for nil); calls: the calls made, in order, to
\* AuthGetServiceAccessToken ("exchange"), SaveToken, the service's
\* GetUserInfo, and the user service's Login or Register
Answer(err, calls) == [err |-> err, calls |-> calls]

HandleServiceCallback(req, env) ==
    IF req.code = "" THEN Answer("missing code", <<>>)
    ELSE IF req.cookie = NoCookie THEN Answer("missing CSRF token", <<>>)
    ELSE IF ~SameCSRFToken(req.state, req.cookie)
    THEN Answer("invalid CSRF token", <<>>)
    ELSE IF env.exchange = "err"
    THEN Answer("unable to get access token", <<"exchange">>)
    ELSE IF env.saveToken = "err"
    THEN Answer("unable to save token", <<"exchange", "SaveToken">>)
    ELSE IF env.userInfo = "err"
    THEN Answer("unable to get user info",
                <<"exchange", "SaveToken", "GetUserInfo">>)
    ELSE
      LET op == IF env.saveToken = "exists" THEN "Login" ELSE "Register"
          calls == <<"exchange", "SaveToken", "GetUserInfo", op>>
      IN IF env.user = "err"
         THEN Answer(IF op = "Login" THEN "unable to login user"
                     ELSE "unable to register user", calls)
         ELSE Answer("", calls)

\* jar: the latestCSRFToken cookie the browser holds; request, err, calls: the
\* latest callback and what it did
NoCallback ==
    [jar |-> NoCookie, handled |-> FALSE,
     request |-> [code |-> "", state |-> "", cookie |-> NoCookie],
     err |-> "", calls |-> <<>>]

\* RedirectToService: a fresh state is set as the cookie and put in the URL
RedirectToService ==
    /\ \E state \in CSRFStates : oauth' = [oauth EXCEPT !.jar = state]
    /\ oauth' # oauth
    /\ UNCHANGED accounts
    /\ UNCHANGED <<engineVars, auth>>
    /\ UNCHANGED <<unitVars, registryVars>>

\* a callback request arrives: from the browser that was redirected, or from
\* anyone, with any parameters and cookie
Callback ==
    /\ \E req \in CallbackRequests, env \in CallbackEnvs :
          LET a == HandleServiceCallback(req, env) IN
          oauth' = [jar |-> oauth.jar, handled |-> TRUE, request |-> req,
                    err |-> a.err, calls |-> a.calls]
    /\ UNCHANGED accounts
    /\ UNCHANGED <<engineVars, auth>>
    /\ UNCHANGED <<unitVars, registryVars>>

-----------------------------------------------------------------------------
(* The user service: Login, Register, GetUserInfo *)

\* the largest id a row gets
MaxUsers == 2

Usernames == {"ann", "bob"}

Emails == {"a@area", "b@area"}

Passwords == {"", "pw", "guess"}

\* database.HashPassword: the stored hash of a password; a row saved with an
\* empty password (an OAuth user) stores the empty string, which is no hash
HashPassword(p) == [alg |-> "bcrypt", of |-> p]

NoPassword == [alg |-> "none", of |-> ""]

\* database.DoPasswordsMatch(hashedPassword, password)
DoPasswordsMatch(hashed, p) == hashed.alg = "bcrypt" /\ hashed.of = p

\* schemas.User: the fields the service reads; the zero value
User(id, username, email, password) ==
    [id |-> id, username |-> username, email |-> email, password |-> password]

ZeroUser == User(0, "", "", NoPassword)

\* the users a request body decodes to: id is 0 when the body has no id
UserRequests ==
    [id : 0..MaxUsers, username : Usernames, email : Emails,
     password : Passwords]

\* the repository's lookups
FindByUserName(users, username) == {u \in users : u.username = username}

FindByEmail(users, email) == {u \in users : u.email = email}

FindById(users, id) ==
    IF \E u \in users : u.id = id THEN CHOOSE u \in users : u.id = id
    ELSE ZeroUser

\* the id the autoIncrement primary key gives to a row saved with id 0
NextId(users) ==
    IF users = {} THEN 1
    ELSE 1 + (CHOOSE n \in {u.id : u \in users} :
                 \A u \in users : u.id <= n)

\* repository.Save(row): [users, saved]; the row takes a fresh id when its id
\* is 0, else it is written under its id; a failing statement (the database
\* is down, or a unique column is taken) saves nothing
Save(users, row, dbOk) ==
    LET others == {u \in users : u.id # row.id}
        taken == \E u \in others :
                    u.username = row.username \/ u.email = row.email
        stored == IF row.id = 0 THEN [row EXCEPT !.id = NextId(users)] ELSE row
    IN IF ~dbOk \/ taken THEN [users |-> users, saved |-> ZeroUser]
       ELSE [users |-> others \cup {stored}, saved |-> stored]

\* a signed token: jti is the decimal string of the id it was generated for,
\* which GetUserIdfromJWTToken parses back
GenerateToken(userID, username) == [jti |-> userID, name |-> username]

NoToken == [jti |-> -1, name |-> ""]

GetUserIdfromJWTToken(token) == token.jti

\* the result of a call: the error ("" for nil), the token returned, the user
\* table after the call and the row the call saved
Result(err, token, users, saved) ==
    [err |-> err, token |-> token, users |-> users, saved |-> saved]

\* Register: newUser is the function's own copy, so Save leaves newUser.Id as
\* the request gave it; the error Save returns is dropped
Register(users, newUser, hashOk, dbOk) ==
    IF FindByEmail(users, newUser.email) # {}
    THEN Result("email already in use", NoToken, users, ZeroUser)
    ELSE IF newUser.password # "" /\ ~hashOk
    THEN Result("error while hashing the password", NoToken, users, ZeroUser)
    ELSE
      LET row == User(newUser.id, newUser.username, newUser.email,
                      IF newUser.password # ""
                      THEN HashPassword(newUser.password) ELSE NoPassword)
          s == Save(users, row, dbOk)
      IN Result("", GenerateToken(newUser.id, newUser.username), s.users,
                s.saved)

\* Login: the regular branch, then the OAuth branch
Login(users, newUser) ==
    LET named == FindByUserName(users, newUser.username)
        matching == {u \in named : DoPasswordsMatch(u.password, newUser.password)}
        oauthUsers == {u \in named : u.email = newUser.email /\ newUser.id # 0}
        Token(u) == Result("", GenerateToken(u.id, u.username), users, ZeroUser)
    IN IF named = {}
       THEN Result("invalid credentials", NoToken, users, ZeroUser)
       ELSE IF matching # {} THEN Token(CHOOSE u \in matching : TRUE)
       ELSE IF oauthUsers # {} THEN Token(CHOOSE u \in oauthUsers : TRUE)
       ELSE Result("invalid credentials", NoToken, users, ZeroUser)

\* GetUserInfo(token): the row of the id in the token, or the zero user
GetUserInfo(users, token) == FindById(users, GetUserIdfromJWTToken(token))

\* users: the user table; op: the latest call; request, token, err, saved: its
\* argument and results; inUse: the request's email was in the table when
\* Register was called; matched: a row with the request's username had the
\* request's password when Login was called; info: what GetUserInfo returned;
\* after: the call whose token GetUserInfo was given
NoCall ==
    [users |-> {}, op |-> "none", request |-> User(0, "", "", ""),
     token |-> NoToken, err |-> "", saved |-> ZeroUser, inUse |-> FALSE,
     matched |-> FALSE, info |-> ZeroUser, after |-> "none"]

RegisterCall ==
    /\ \E newUser \in UserRequests, hashOk \in BOOLEAN, dbOk \in BOOLEAN :
          LET r == Register(accounts.users, newUser, hashOk, dbOk) IN
          /\ \A u \in r.users : u.id <= MaxUsers
          /\ accounts' = [NoCall EXCEPT
                !.users = r.users, !.op = "Register", !.request = newUser,
                !.token = r.token, !.err = r.err, !.saved = r.saved,
                !.inUse = FindByEmail(accounts.users, newUser.email) # {}]
    /\ UNCHANGED oauth
    /\ UNCHANGED <<engineVars, auth>>
    /\ UNCHANGED <<unitVars, registryVars>>

LoginCall ==
    /\ \E newUser \in UserRequests :
          LET r == Login(accounts.users, newUser) IN
          accounts' = [NoCall EXCEPT
             !.users = r.users, !.op = "Login", !.request = newUser,
             !.token = r.token, !.err = r.err,
             !.matched = \E u \in FindByUserName(accounts.users, newUser.username) :
                            DoPasswordsMatch(u.password, newUser.password)]
    /\ UNCHANGED oauth
    /\ UNCHANGED <<engineVars, auth>>
    /\ UNCHANGED <<unitVars, registryVars>>

\* GetUserInfo with the token the latest Register or Login returned
GetUserInfoCall ==
    /\ accounts.op \in {"Register", "Login"}
    /\ accounts.token # NoToken
    /\ accounts' = [accounts EXCEPT
          !.op = "GetUserInfo", !.after = accounts.op,
          !.info = GetUserInfo(accounts.users, accounts.token)]
    /\ UNCHANGED oauth
    /\ UNCHANGED <<engineVars, auth>>
    /\ UNCHANGED <<unitVars, registryVars>>

\* no callback was handled and no user exists
WebIdle ==
    /\ oauth = NoCallback
    /\ accounts = NoCall

-----------------------------------------------------------------------------
(* Specifications *)

\* no poller exists and no request was served
EngineIdle ==
    /\ units = [u \in Units |-> FailingUnit]
    /\ poller = [u \in Units |-> NoPoller(units[u].blob)]
    /\ supervisor = NoSupervisor
    /\ history = [u \in Units |-> NoHistory]
    /\ auth = NoRequest
    /\ WebIdle

Init ==
    /\ kind \in Kinds
    /\ option \in (IF kind = "Timer" THEN TimerOptions ELSE {NoOption})
    /\ refreshRate \in Rates
    /\ tzOffset \in (IF kind = "Timer" THEN {0, Hour} ELSE {0})
    /\ blob \in InitialBlobs(kind)
    /\ now = 0
    /\ world \in (IF kind \in {"Spotify", "Weather"} THEN Worlds ELSE {"none"})
    /\ mailbox = {}
    /\ last = NoInvocation
    /\ worldChanged = FALSE
    /\ fires = NoFires
    /\ RegistryInit
    /\ EngineIdle

Next ==
    \/ InvokeTimer
    \/ InvokeSpotify
    \/ InvokeMicrosoft
    \/ InvokeWeather
    \/ WorldChange
    \/ MailArrives

Spec == Init /\ [][Next]_vars

\* the registry alone: queries and lookups, with no unit polling
InitRegistry ==
    /\ kind = "Timer"
    /\ option = NoOption
    /\ refreshRate = 0
    /\ tzOffset = 0
    /\ blob = Blob("object", 0)
    /\ now = 0
    /\ world = "none"
    /\ mailbox = {}
    /\ last = NoInvocation
    /\ worldChanged = FALSE
    /\ fires = NoFires
    /\ RegistryInit
    /\ EngineIdle

NextRegistry ==
    \/ QueryActionInfo
    \/ QueryReactionInfo
    \/ LookupAction
    \/ LookupReaction

SpecRegistry == InitRegistry /\ [][NextRegistry]_vars

\* the unit variables at rest, while the engine or the middleware is observed
UnitIdle ==
    /\ kind = "Timer"
    /\ option = NoOption
    /\ refreshRate = 0
    /\ tzOffset = 0
    /\ blob = Blob("object", 0)
    /\ now = 0
    /\ world = "none"
    /\ mailbox = {}
    /\ last = NoInvocation
    /\ worldChanged = FALSE
    /\ fires = NoFires

\* the supervisor and the pollers of two units
InitEngine ==
    /\ UnitIdle
    /\ RegistryInit
    /\ units \in {f \in [Units -> Rows] : f[2] \in SiblingRows}
    /\ poller = [u \in Units |-> NoPoller(units[u].blob)]
    /\ supervisor = NoSupervisor
    /\ history = [u \in Units |-> NoHistory]
    /\ auth = NoRequest
    /\ WebIdle

NextEngine ==
    \/ \E u \in Units : start(u)
    \/ \E u \in Units : stop(u)
    \/ \E u \in Units : restart(u)
    \/ \E u \in Units : stopReturns(u)
    \/ \E u \in Units : Resolve(u)
    \/ \E u \in Units : BeginCycle(u)
    \/ \E u \in Units : HandlerRuns(u)
    \/ \E u \in Units : React(u)
    \/ \E u \in Units : Wake(u)

SpecEngine == InitEngine /\ [][NextEngine]_vars

\* a unit whose handler errors or panics on every cycle, and a healthy sibling
InitIsolation ==
    /\ UnitIdle
    /\ RegistryInit
    /\ units \in {f \in [Units -> Rows] :
                    f[1] \in {FailingUnit, PanicUnit} /\ f[2] = WeatherUnit}
    /\ poller = [u \in Units |-> NoPoller(units[u].blob)]
    /\ supervisor = NoSupervisor
    /\ history = [u \in Units |-> NoHistory]
    /\ auth = NoRequest
    /\ WebIdle

\* every poller is a task of its own, scheduled fairly
SpecEngineFair ==
    InitIsolation /\ [][NextEngine]_vars /\ \A u \in Units : WF_vars(PollerStep(u))

\* a Microsoft unit alone, with mails received one second apart
InitMail ==
    /\ kind = "Microsoft"
    /\ option = NoOption
    /\ refreshRate = 0
    /\ tzOffset = 0
    /\ blob \in InitialBlobs(kind)
    /\ now = 0
    /\ world = "none"
    /\ mailbox = {}
    /\ last = NoInvocation
    /\ worldChanged = FALSE
    /\ fires = NoFires
    /\ RegistryInit
    /\ EngineIdle

NextMail ==
    \/ InvokeMicrosoft
    \/ MailArrives
    \/ MailArrivedBefore

SpecMail == InitMail /\ [][NextMail]_vars

\* one unit of each firing handler, and a weather unit beside it
InitHandoff ==
    /\ UnitIdle
    /\ RegistryInit
    /\ units \in {f \in [Units -> Rows \cup {SpotifyUnit, MicrosoftUnit}] :
                    /\ f[1] \in {TimerUnit, SpotifyUnit, MicrosoftUnit,
                                 CounterUnit, WeatherUnit}
                    /\ f[2] = WeatherUnit}
    /\ poller = [u \in Units |-> NoPoller(units[u].blob)]
    /\ supervisor = NoSupervisor
    /\ history = [u \in Units |-> NoHistory]
    /\ auth = NoRequest
    /\ WebIdle

SpecHandoff == InitHandoff /\ [][NextEngine]_vars

\* the GitHub controller alone
InitOAuth ==
    /\ UnitIdle
    /\ RegistryInit
    /\ EngineIdle

NextOAuth ==
    \/ RedirectToService
    \/ Callback

SpecOAuth == InitOAuth /\ [][NextOAuth]_vars

\* the user service alone, on an empty user table
InitUsers ==
    /\ UnitIdle
    /\ RegistryInit
    /\ EngineIdle

NextUsers ==
    \/ RegisterCall
    \/ LoginCall
    \/ GetUserInfoCall

SpecUsers == InitUsers /\ [][NextUsers]_vars

\* the middleware alone
InitAuth ==
    /\ UnitIdle
    /\ RegistryInit
    /\ EngineIdle

NextAuth == Request

SpecAuth == InitAuth /\ [][NextAuth]_vars

-----------------------------------------------------------------------------
(* Properties *)

\* an invocation has returned
Returned == last.path \notin {"none", "panic"}

\* the early returns of a handler
ErrorPaths == {"option", "token", "upstream", "find", "storage", "persist", "parse"}

\* the early returns on a transient error: option decode failure, missing or
\* empty token, upstream request failure, non-200 status, response decode failure
TransientErrorPaths == {"option", "token", "upstream"}

\* the larger of two rates
Max(a, b) == IF a >= b THEN a ELSE b

\* C1: for every unit, the sleep that ends a normally completed cycle is
\* max(Action.MinimumRefreshRate, unit.ActionRefreshRate) seconds.
C1_SleepIsMaxOfRates ==
    last.path = "done" =>
        last.slept = Max(MinimumRefreshRate(kind), refreshRate)

\* C2 as claimed: whatever path the previous invocation took, the delay to the
\* next invocation (the time the handler slept before it returned) is at least
\* the Action's declared MinimumRefreshRate.
C2_DelayAtLeastMinimumOnEveryPath ==
    Returned => last.slept >= MinimumRefreshRate(kind)

\* C2 as amended: after a cycle that ran to its end (fired or not fired) the
\* delay to the next invocation is at least the declared MinimumRefreshRate.
C2_DelayAtLeastMinimumAfterCompletedCycle ==
    last.path = "done" => last.slept >= MinimumRefreshRate(kind)

\* a Timer unit with refresh rate 0 completed a cycle and slept the minimum
C2_Witness ==
    /\ kind = "Timer"
    /\ refreshRate = 0
    /\ last.path = "done"
    /\ last.slept = MinimumRefreshRate("Timer")

\* C3: an invocation that ends on a transient error path leaves the persisted
\* StorageVariable as it was before the invocation.
C3_TransientErrorKeepsStorage ==
    last.path \in TransientErrorPaths => last.blob = last.before

\* C4: every error path sleeps the backoff (a second) before the handler
\* returns.
C4_ErrorPathSleepsBackoff ==
    last.path \in ErrorPaths => last.slept >= Second

\* C5: whatever the state blob holds, no invocation gives the cycle up because
\* the blob does not decode.
C5_NoCycleFailsOnStateBlob ==
    last.path # "storage"

\* the timer fired on a stored time that had not passed yet on the server clock
FiredBeforeStoredTime ==
    /\ kind = "Timer"
    /\ Fired(last)
    /\ last.before.tag = "time"
    /\ last.before.val >= now - last.slept

\* C6: once TimerActionSpecificHour has fired and stored its time, it does not
\* fire again before that stored time has passed, so one occurrence of the
\* configured hour:minute yields at most one fact.
C6_OneFactPerOccurrence ==
    /\ fires.count <= 1
    /\ ~FiredBeforeStoredTime

\* C7: two invocations in a row with no change of the observed external
\* condition between them never both send a fact.
C7_NoDoubleFire ==
    ~last.doubled

\* the handler each service binds to each action name
ActionBindings ==
    {<<"Timer", "SpecificTime", "TimerActionSpecificHour">>,
     <<"Spotify", "MusicPlayed", "SpotifyActionMusicPlayed">>,
     <<"Microsoft", "ReceiveMicrosoftMail", "MicrosoftActionReceiveMail">>,
     <<"Openweathermap", "SpecificWeather", "OpenweathermapActionSpecificWeather">>,
     <<"Openweathermap", "SpecificTemperature",
       "OpenweathermapActionSpecificTemperature">>}

\* the handler each service binds to each reaction name
ReactionBindings ==
    {<<"Timer", "GiveTime", "TimerReactionGiveTime">>,
     <<"Spotify", "SkipNextMusic", "SpotifyReactionSkipNextMusic">>,
     <<"Spotify", "SkipPreviousMusic", "SpotifyReactionSkipPreviousMusic">>,
     <<"Microsoft", "SendMicrosoftMail", "MicrosoftReactionSendMail">>,
     <<"Openweathermap", "CurrentWeather", "OpenweathermapReactionCurrentWeather">>}

\* the lookup answered with the bound handler, or with nil when none is bound
AnsweredFrom(bindings) ==
    LET hit == {t \in bindings : t[1] = lookup.service /\ t[2] = lookup.name}
    IN IF hit = {} THEN lookup.handler = Nil
       ELSE \A t \in hit : lookup.handler = t[3]

C9_NameListsIndependentOfQueries ==
    \A s \in Services :
        /\ GetActionsName(s) = RegistryStart[s].actionsName
        /\ GetReactionsName(s) = RegistryStart[s].reactionsName

\* C10: one cycle makes at most one persisted write of the unit's state.
C10_AtMostOneWritePerCycle ==
    Writes(last) <= 1

\* C11: a Reaction invocation, whether it succeeds or fails, leaves the unit's
\* persisted state blob as it was: every step that leaves Reacting keeps
\* the blob.
C11_ReactionLeavesStateBlob ==
    [][\A u \in Units :
          poller[u].state = "Reacting" => poller'[u].blob = poller[u].blob]_vars

\* a timer unit fired and stored its time, its Reaction failed, and the stored
\* time is still there
C11_Witness ==
    \E u \in Units :
        /\ units[u] = TimerUnit
        /\ history[u].reacted = 1
        /\ poller[u].result = "Error sending email: "
        /\ poller[u].blob = TimeBlob(EngineNow + Minute)

\* C12: on every path a Reaction invocation returns once with a result
\* message, is not repeated in the cycle, and the unit goes back to Polling.
C12_ReactionReturnsAndPollingGoesOn ==
    [][\A u \in Units :
          poller[u].state = "Reacting" /\ poller'[u].state # "Reacting"
          => /\ poller'[u].state = "Polling"
             /\ poller'[u].result # NoResult
             /\ history'[u].reacted = Sat(history[u].reacted + 1)]_vars

\* C13: after any sequence of start, stop and restart calls at most one poller
\* of a unit id is alive, and a start for an id whose poller is running spawns
\* nothing and leaves the pollers and the supervisor's map as they were.
C13_StartIsIdempotent ==
    [][\A u \in Units :
          /\ history'[u].live <= 1
          /\ (history'[u].startNoop /\ ~history[u].startNoop)
                => (poller' = poller /\ supervisor' = supervisor)]_vars

\* start was called for a unit whose poller was running, and one poller runs
C13_Witness ==
    \E u \in Units :
        /\ history[u].startNoop
        /\ history[u].live = 1
        /\ Running(u)
        /\ poller[u].state = "Polling"

\* C14: once stop(unitId) has returned, the unit's persisted state is not
\* written again, wherever the poller was when stop was called.
C14_NoWriteAfterStopReturned ==
    \A u \in Units : ~history[u].lateWrite

\* stop was called while the timer handler was mid-call; the handler stored
\* its time during the wait, and stop has returned with the poller Stopped
C14_Witness ==
    \E u \in Units :
        /\ units[u] = TimerUnit
        /\ history[u].stopAt = "called"
        /\ history[u].stopReturned
        /\ poller[u].state = "Stopped"
        /\ poller[u].blob = TimeBlob(EngineNow + Minute)

\* C15: beside a unit whose Action handler errors (or panics) on every cycle,
\* a healthy unit that is Polling always goes on to fire (or is stopped by its
\* own cancellation): it never waits on its sibling.
C15_HealthySiblingKeepsFiring ==
    \A u \in Units :
        (units[u] = WeatherUnit /\ poller[u].state = "Polling")
            ~> (poller[u].state \in {"Reacting", "Stopped"})

\* the failing unit is in its error backoff after an invocation while the
\* healthy unit fires once more
C15_Witness ==
    /\ units[1] = FailingUnit
    /\ history[1].invoked
    /\ poller[1].state = "Polling"
    /\ poller[1].phase = "sleeping"
    /\ units[2] = WeatherUnit
    /\ poller[2].state = "Reacting"
    /\ history[2].reacted >= 1

\* both names of the row are bound by the services they name
BoundNames(row) ==
    /\ \/ row.service = "Scenario"
       \/ \E t \in ActionBindings : t[1] = row.service /\ t[2] = row.action
    /\ \E t \in ReactionBindings : t[1] = row.reactionService /\ t[2] = row.reaction

\* C16: a unit with an unresolved Action or Reaction name goes from Starting
\* to Stopped, its Action handler is never invoked and one configuration error
\* is reported; a unit whose names resolve is never stopped for it.
C16_UnresolvedUnitNeverPolls ==
    \A u \in Units :
        IF BoundNames(units[u])
        THEN poller[u].reason # "config" /\ history[u].configErrors = 0
        ELSE /\ ~history[u].invoked
             /\ poller[u].state \in {"None", "Starting", "Stopped"}
             /\ history[u].configErrors <= 1
             /\ poller[u].state = "Stopped"
                   => poller[u].reason = "config" /\ history[u].configErrors = 1

\* the unit with the unbound reaction name is Stopped while its sibling reacts
C16_Witness ==
    /\ units[1] = UnboundReactionUnit
    /\ poller[1].state = "Stopped"
    /\ poller[1].reason = "config"
    /\ history[1].configErrors = 1
    /\ poller[2].state = "Reacting"

\* C17: the step in which a unit's handler panics stops that unit's poller and
\* leaves the supervisor and every other poller as they were.
C17_PanicStopsOnlyItsPoller ==
    [][\A u \in Units :
          (poller'[u].reason = "panic" /\ poller[u].reason # "panic")
          => /\ poller'[u].state = "Stopped"
             /\ supervisor' = supervisor
             /\ \A v \in Units \ {u} : poller'[v] = poller[v]]_vars

\* the weather unit of an unknown city panicked and is Stopped; its sibling
\* reacts, having fired before
C17_Witness ==
    /\ units[1] = PanicUnit
    /\ poller[1].state = "Stopped"
    /\ poller[1].reason = "panic"
    /\ poller[2].state = "Reacting"
    /\ history[2].reacted >= 1

\* C18: the counter unit, started from an empty state, does not fire on cycles
\* one and two, fires on cycle three with the fact counter=3, and its Reaction
\* is invoked exactly once.
C18_CounterFiresOnThirdCycle ==
    \A u \in Units :
        units[u] = CounterUnit =>
            LET n == CounterOf(poller[u].blob)
                three == [about |-> "counter", n |-> 3]
            IN
            /\ n < 3 => history[u].reacted = 0 /\ poller[u].state # "Reacting"
            /\ n = 3 => \/ /\ poller[u].state = "Reacting"
                           /\ history[u].reacted = 0
                           /\ poller[u].fact = three
                        \/ /\ poller[u].state # "Reacting"
                           /\ history[u].reacted = 1
                           /\ history[u].lastFact = three
            /\ n > 3 => /\ poller[u].state # "Reacting"
                        /\ history[u].reacted = 1
                        /\ history[u].lastFact = three

\* the counter unit has run a fourth cycle and its Reaction was invoked once
C18_Witness ==
    \E u \in Units :
        /\ units[u] = CounterUnit
        /\ CounterOf(poller[u].blob) = 4
        /\ history[u].reacted = 1

\* C19: from the moment a unit's poller is signalled to stop, no Action
\* invocation of that unit begins; signalled in its sleep, the poller goes to
\* Stopped.
C19_NoInvocationAfterDisable ==
    [][\A u \in Units :
          poller[u].cancel
          => /\ ~(poller'[u].phase = "called" /\ poller[u].phase # "called")
             /\ (poller[u].state = "Polling" /\ poller[u].phase = "sleeping"
                 /\ poller'[u] # poller[u])
                   => poller'[u].state = "Stopped"]_vars

\* a unit was disabled during its sleep and its poller is Stopped
C19_Witness ==
    \E u \in Units :
        /\ history[u].stopAt = "sleeping"
        /\ history[u].invoked
        /\ poller[u].state = "Stopped"
        /\ poller[u].reason = "cancel"

\* a request whose bearer token is not valid
Invalid(header) == header.prefix < PrefixLen \/ header.rest # "valid"

\* C20: AuthorizeJWT answers 401 to every request whose bearer token is not
\* valid; such a request never reaches the handler and never fails otherwise.
C20_InvalidTokenAnswers401 ==
    (auth.outcome # "none" /\ Invalid(auth.header)) => auth.outcome = "401"

-----------------------------------------------------------------------------
(* Facts and persisted state *)

\* the server clock when the latest invocation was made
CalledAt == now - last.slept

\* the number of facts the invocation sent on the channel
Sends(r) == Cardinality({i \in 1..Len(r.events) : r.events[i] = "send"})

\* the state a firing invocation stores is the persisted state at its return
FiringStatePersisted ==
    CASE kind = "Timer" -> last.blob = TimeBlob(CalledAt + Minute)
      [] kind = "Spotify" -> last.blob = SpotifyBlob(SpotifyStorageVariableTrue)
      [] kind = "Microsoft" ->
           last.blob.tag = "time" /\ (last.blob.val - Second) \in mailbox
      [] OTHER -> TRUE

\* the send is the step right after a write
WriteThenSend ==
    \A i \in 1..Len(last.events) :
        last.events[i] = "send" => i > 1 /\ last.events[i - 1] = "write"

\* C22: a handler that keeps state sends a fact only after the state of that
\* firing was persisted: when the marshal or the Update fails, no fact is sent
\* (Timer, Spotify and Microsoft handlers).
C22_FactOnlyAfterPersist ==
    (kind \in {"Timer", "Spotify", "Microsoft"} /\ Fired(last))
        => (WriteThenSend /\ FiringStatePersisted)

C24_EdgeTriggered ==
    [][(kind = "Spotify" /\ last' # last)
          => /\ Fired(last')
                   => /\ world = "expected"
                      /\ blob # SpotifyBlob(SpotifyStorageVariableTrue)
                      /\ blob' = SpotifyBlob(SpotifyStorageVariableTrue)
             /\ (blob = SpotifyBlob(SpotifyStorageVariableTrue) /\ blob' # blob)
                   => /\ blob' = SpotifyBlob(SpotifyStorageVariableFalse)
                      /\ world # "expected"]_vars

\* C25: whatever the StorageVariable column held at first, once a cycle of
\* SpotifyActionMusicPlayed has run to its final sleep the persisted state is
\* False or True, so the unit is able to fire when the expected track plays.
C25_SpotifyStateInitialised ==
    (kind = "Spotify" /\ last.path = "done")
        => blob \in {SpotifyBlob(SpotifyStorageVariableFalse),
                     SpotifyBlob(SpotifyStorageVariableTrue)}

\* C26: every capability name a service advertises through
\* GetServiceActionInfo or GetServiceReactionInfo is answered with a handler,
\* not nil, when it is looked up in that service.
C26_AdvertisedNamesResolve ==
    /\ (lookup.which = "action" /\ lookup.name \in ActionInfoNames(lookup.service))
          => lookup.handler # Nil
    /\ (lookup.which = "reaction"
          /\ lookup.name \in ReactionInfoNames(lookup.service))
          => lookup.handler # Nil

\* the mails the latest invocation's query returned
Queried ==
    NewMails({m \in mailbox : m <= CalledAt}, Watermark(last.before, CalledAt))

\* the watermark persisted when the latest invocation returned
StoredWatermark == IF last.blob.tag = "time" THEN last.blob.val ELSE ZeroTime

\* C27: every mail received after the watermark gets exactly one fact: when
\* MicrosoftActionReceiveMail fires, the mail it fired for is behind the
\* persisted watermark (it is not reported again), and every other mail its
\* query returned is still ahead of the watermark (it is not skipped), also
\* when the poll returned several new mails.
C27_EveryNewMailOneFact ==
    (kind = "Microsoft" /\ Fired(last))
        => /\ (StoredWatermark - Second) \in Queried
           /\ \A m \in Queried :
                 m = StoredWatermark - Second \/ m > StoredWatermark

\* the request passes the checks that guard the exchange
Accepted(req) ==
    req.code # "" /\ req.cookie # NoCookie /\ req.state = req.cookie

\* C28: HandleServiceCallback exchanges the code and saves the token and the
\* user only for a request with a non-empty code whose state equals the
\* latestCSRFToken cookie; a request with no code, with no cookie, or whose
\* state differs from the cookie gets an error, with no exchange and no save.
C28_ExchangeOnlyAfterCSRFCheck ==
    (oauth.handled /\ ~Accepted(oauth.request))
        => (oauth.err # "" /\ oauth.calls = <<>>)

\* the browser that was redirected came back with the state of its cookie, and
\* the code was exchanged and the user registered
C28_Witness ==
    /\ oauth.handled
    /\ oauth.jar \in CSRFStates
    /\ oauth.request.cookie = oauth.jar
    /\ oauth.request.state = oauth.jar
    /\ oauth.request.code # ""
    /\ oauth.err = ""
    /\ oauth.calls = <<"exchange", "SaveToken", "GetUserInfo", "Register">>

\* C29: after a Register that returned no error, GetUserInfo with the token it
\* returned gives the user Register saved; a Register on an email already in
\* use returns 'email already in use', saves nothing and issues no token.
C29_RegisterThenGetUserInfo ==
    /\ (accounts.op = "GetUserInfo" /\ accounts.after = "Register")
          => (accounts.saved # ZeroUser /\ accounts.info = accounts.saved)
    /\ (accounts.op = "Register" /\ accounts.inUse)
          => /\ accounts.err = "email already in use"
             /\ accounts.saved = ZeroUser
             /\ accounts.token = NoToken

\* C30: Login issues a token only when the request's password matches the
\* stored hash of a user with the request's username; any other request gets
\* 'invalid credentials' and no token, whatever its email and id.
C30_TokenOnlyOnPasswordMatch ==
    (accounts.op = "Login" /\ ~accounts.matched)
        => (accounts.err = "invalid credentials" /\ accounts.token = NoToken)

====
